---- MODULE Spec2Model ----
(***************************************************************************)
(* jterm: a terminal tracker of the user's experience level in each of the *)
(* 47 prefectures of Japan.  The model follows src/main.rs: the JTermApp   *)
(* struct, the input loop run_app with one action per key, the line-offset *)
(* walk get_prefecture_line, ensure_selected_visible, the progress file,   *)
(* calculate_stats and the numbers render_stats_view derives from it.      *)
(***************************************************************************)
EXTENDS Integers, Sequences, FiniteSets, TLC

VARIABLES
    show_help, show_map, show_stats, show_detail, show_alt_map,
    selected_index, list_state, map_scroll, map_selected_index,
    stats_scroll, prefecture_scroll,
    user_progress,      \* UserProgress.prefecture_levels: name -> level
    disk,               \* ~/.jterm/progress.json
    pc,                 \* position of main: "new", "load_error", and in run_app
                        \* "draw", "read", "quit", "error", "panic"
    save_result,        \* result of the latest save_progress(): "none", "ok", "err"
    last_key,           \* the input event handled by the last iteration
    keys,               \* number of input events read so far
    stats_frame         \* the statistics on the screen since the last draw

view == <<show_help, show_map, show_stats, show_detail, show_alt_map,
          selected_index, list_state, map_scroll, map_selected_index,
          stats_scroll, prefecture_scroll>>

\* what only a level key touches
store == <<user_progress, disk, save_result>>

vars == <<show_help, show_map, show_stats, show_detail, show_alt_map,
          selected_index, list_state, map_scroll, map_selected_index,
          stats_scroll, prefecture_scroll, user_progress, disk, pc,
          save_result, last_key, keys, stats_frame>>

----------------------------------------------------------------------------
(* Bounds of the exploration *)

MaxKeys == 5          \* input events read in one run
ScrollSlack == 8      \* prior map_scroll values tried beyond the last line

----------------------------------------------------------------------------
(* The catalog *)

P(name, region) == [name_en |-> name, region |-> region]

get_prefectures ==
    << P("Hokkaido", "Hokkaido"), P("Aomori", "Tohoku"), P("Iwate", "Tohoku"),
       P("Miyagi", "Tohoku"), P("Akita", "Tohoku"), P("Yamagata", "Tohoku"),
       P("Fukushima", "Tohoku"), P("Ibaraki", "Kanto"), P("Tochigi", "Kanto"),
       P("Gunma", "Kanto"), P("Saitama", "Kanto"), P("Chiba", "Kanto"),
       P("Tokyo", "Kanto"), P("Kanagawa", "Kanto"), P("Niigata", "Chubu"),
       P("Toyama", "Chubu"), P("Ishikawa", "Chubu"), P("Fukui", "Chubu"),
       P("Yamanashi", "Chubu"), P("Nagano", "Chubu"), P("Gifu", "Chubu"),
       P("Shizuoka", "Chubu"), P("Aichi", "Chubu"), P("Mie", "Kansai"),
       P("Shiga", "Kansai"), P("Kyoto", "Kansai"), P("Osaka", "Kansai"),
       P("Hyogo", "Kansai"), P("Nara", "Kansai"), P("Wakayama", "Kansai"),
       P("Tottori", "Chugoku"), P("Shimane", "Chugoku"), P("Okayama", "Chugoku"),
       P("Hiroshima", "Chugoku"), P("Yamaguchi", "Chugoku"), P("Tokushima", "Shikoku"),
       P("Kagawa", "Shikoku"), P("Ehime", "Shikoku"), P("Kochi", "Shikoku"),
       P("Fukuoka", "Kyushu"), P("Saga", "Kyushu"), P("Nagasaki", "Kyushu"),
       P("Kumamoto", "Kyushu"), P("Oita", "Kyushu"), P("Miyazaki", "Kyushu"),
       P("Kagoshima", "Kyushu"), P("Okinawa", "Okinawa") >>

\* the catalog with Aomori filed under Hokkaido
prefectures_misfiled == [get_prefectures EXCEPT ![2].region = "Hokkaido"]

\* app.prefectures, and Vec::get on it (0-based)
prefectures == get_prefectures

HasPrefecture(index) == index >= 0 /\ index < Len(prefectures)

PrefectureAt(index) == prefectures[index + 1]

Indices == 0 .. (Len(prefectures) - 1)

NameAt(index) == PrefectureAt(index).name_en

CatalogNames == {NameAt(i) : i \in Indices}

Levels == 0 .. 5

----------------------------------------------------------------------------
(* Progress: HashMap<String, u8> as a function on the set of its keys *)

EmptyProgress == [k \in {} |-> 0]

\* HashMap::entry(key).or_insert(value): keeps a level that is already there
MapInsert_or_insert(m, key, value) ==
    [k \in (DOMAIN m) \cup {key} |-> IF k \in DOMAIN m THEN m[k] ELSE value]

\* HashMap::insert
MapInsert(m, key, value) ==
    [k \in (DOMAIN m) \cup {key} |-> IF k = key THEN value ELSE m[k]]

\* .copied().unwrap_or(1)
get_prefecture_level_absent_one(progress, prefecture_name) ==
    IF prefecture_name \in DOMAIN progress THEN progress[prefecture_name] ELSE 1

\* prefecture_levels.get(name).copied().unwrap_or(0)
get_prefecture_level(progress, prefecture_name) ==
    IF prefecture_name \in DOMAIN progress THEN progress[prefecture_name] ELSE 0

\* always the list selection
LevelTargetIndex_list_only(map_on, map_index, list_index) == list_index

\* the index a level key writes to
LevelTargetIndex(map_on, map_index, list_index) ==
    IF map_on THEN map_index ELSE list_index

set_prefecture_level(progress, map_on, map_index, list_index, level) ==
    LET index == LevelTargetIndex(map_on, map_index, list_index)
    IN  IF HasPrefecture(index)
        THEN MapInsert(progress, PrefectureAt(index).name_en, level)
        ELSE progress

----------------------------------------------------------------------------
(* The progress file *)

NoFile == [exists |-> FALSE, parses |-> FALSE, levels |-> EmptyProgress]

FileOf(progress) == [exists |-> TRUE, parses |-> TRUE, levels |-> progress]

BrokenFile == [exists |-> TRUE, parses |-> FALSE, levels |-> EmptyProgress]

\* load_user_progress substituting the default for a file it cannot parse
load_fails_never(d) == FALSE

\* load_user_progress returns Err: the file exists and serde_json rejects it
load_fails(d) == d.exists /\ ~d.parses

\* the value of load_user_progress when it returns Ok: whatever u8 levels
\* the file holds, or the default when there is no file
load_user_progress(d) == IF d.exists THEN d.levels ELSE EmptyProgress

\* the progress files a run starts from
StartFiles ==
    { NoFile,
      FileOf(EmptyProgress),
      FileOf([k \in {"Tokyo"} |-> 5]),
      FileOf([k \in {"Hokkaido", "Aomori"} |-> IF k = "Hokkaido" THEN 0 ELSE 3]),
      FileOf([k \in {"Atlantis"} |-> 2]),
      FileOf([k \in {"Kyoto"} |-> 9]) }

\* the files main can find: those, and one that is not a UserProgress
LoadFiles == StartFiles \cup {BrokenFile}

\* a save that reports success without replacing the file
SaveOutcomes_stale(d, progress, ok) == {d}

\* what save_user_progress can leave on disk: the new contents when it
\* succeeds; the old file or a partly written one when it fails
SaveOutcomes(d, progress, ok) ==
    IF ok THEN {FileOf(progress)} ELSE {d, BrokenFile}

----------------------------------------------------------------------------
(* The rendered map *)

\* the zone blocks of render_map, with the names it prints, in its order
MapZones ==
    << <<"Hokkaido">>,
       <<"Aomori", "Iwate", "Akita", "Miyagi", "Yamagata", "Fukushima">>,
       <<"Ibaraki", "Tochigi", "Gunma", "Saitama", "Tokyo", "Chiba", "Kanagawa">>,
       <<"Niigata", "Toyama", "Ishikawa", "Fukui", "Yamanashi", "Nagano",
         "Gifu", "Shizuoka", "Aichi">>,
       <<"Mie", "Shiga", "Kyoto", "Osaka", "Hyogo", "Nara", "Wakayama">>,
       <<"Tottori", "Shimane", "Okayama", "Hiroshima", "Yamaguchi">>,
       <<"Tokushima", "Kagawa", "Ehime", "Kochi">>,
       <<"Fukuoka", "Saga", "Nagasaki", "Kumamoto", "Oita", "Miyazaki",
         "Kagoshima">>,
       <<"Okinawa">> >>

MapLine(kind, name, indicator, level) ==
    [kind |-> kind, name_en |-> name, indicator |-> indicator, level |-> level]

\* the prefecture lines of one zone block; the first has index first_index
ZoneLines(names, first_index, map_index, progress) ==
    [n \in 1 .. Len(names) |->
        MapLine("prefecture", names[n], (first_index + n - 1) = map_index,
                get_prefecture_level(progress, names[n]))]

RECURSIVE RenderZones(_, _, _, _, _)
RenderZones(z, prefecture_index, map_lines, map_index, progress) ==
    IF z > Len(MapZones) THEN map_lines
    ELSE LET names == MapZones[z]
             block == <<MapLine("header", "", FALSE, 0)>>
                      \o ZoneLines(names, prefecture_index, map_index, progress)
                      \o <<MapLine("footer", "", FALSE, 0)>>
                      \o (IF z < Len(MapZones)
                          THEN <<MapLine("blank", "", FALSE, 0)>> ELSE <<>>)
         IN  RenderZones(z + 1, prefecture_index + Len(names),
                         map_lines \o block, map_index, progress)

render_map(map_index, progress) == RenderZones(1, 0, <<>>, map_index, progress)

----------------------------------------------------------------------------
(* The scroll-visibility algorithm *)

\* gives Tohoku a seventh line and Kanto only six
LineZoneCounts_shifted == <<1, 7, 6, 9, 7, 5, 4, 7, 1>>

\* the loop bounds of get_prefecture_line, one per zone block
LineZoneCounts == <<1, 6, 7, 9, 7, 5, 4, 7, 1>>

RECURSIVE LineWalk(_, _, _, _)
LineWalk(z, line_number, prefecture_index, target_index) ==
    LET count  == LineZoneCounts[z]
        header == line_number + 1
    IN  IF target_index >= prefecture_index
           /\ target_index < prefecture_index + count
        THEN header + (target_index - prefecture_index)
        ELSE IF z = Len(LineZoneCounts)
             THEN header + count
             ELSE LineWalk(z + 1, header + count + 2,
                           prefecture_index + count, target_index)

get_prefecture_line(target_index) == LineWalk(1, 0, 0, target_index)

terminal_height == 25

\* usize::saturating_sub
saturating_sub(a, b) == IF a >= b THEN a - b ELSE 0

\* follows the selection downwards only
ensure_selected_visible_down_only(map_index, scroll) ==
    LET selected_line == get_prefecture_line(map_index)
    IN  IF selected_line >= scroll + terminal_height
        THEN saturating_sub(selected_line + 1, terminal_height)
        ELSE scroll

\* scrolls down one line short
ensure_selected_visible_short(map_index, scroll) ==
    LET selected_line == get_prefecture_line(map_index)
    IN  IF selected_line < scroll THEN selected_line
        ELSE IF selected_line >= scroll + terminal_height
             THEN saturating_sub(selected_line, terminal_height)
             ELSE scroll

\* scrolls down until the selected line is the first one shown
ensure_selected_visible_top(map_index, scroll) ==
    LET selected_line == get_prefecture_line(map_index)
    IN  IF selected_line < scroll THEN selected_line
        ELSE IF selected_line >= scroll + terminal_height
             THEN selected_line
             ELSE scroll

\* the value ensure_selected_visible leaves in map_scroll
ensure_selected_visible(map_index, scroll) ==
    LET selected_line == get_prefecture_line(map_index)
        scroll_top    == scroll
        scroll_bottom == scroll_top + terminal_height
    IN  IF selected_line < scroll_top THEN selected_line
        ELSE IF selected_line >= scroll_bottom
             THEN saturating_sub(selected_line + 1, terminal_height)
             ELSE scroll

\* lets the last line scroll up to the top of the window
MapMaxScroll_no_viewport(map_index, progress) ==
    Len(render_map(map_index, progress))

\* max_scroll of the Down key in map view
MapMaxScroll(map_index, progress) ==
    saturating_sub(Len(render_map(map_index, progress)), 25)

StatsMaxScroll == 20

visible_height == 20

SidebarMaxScroll == saturating_sub(Len(prefectures), visible_height)

-----------------------------------------------------------------------------
(* f64 arithmetic of the percentages: `(a as f64 / b as f64 * 100.0) as u32`.*)
(* A positive f64 is [mant, exp]: the 53-bit significand, leading bit set,   *)
(* as three limbs <<top 17 bits, middle 18 bits, low 18 bits>>, and the      *)
(* exponent of the leading bit. Operands are counts below 2^11.              *)

\* 2^n for n in 0 .. 30
Pow2(n) ==
    << 1, 2, 4, 8, 16, 32, 64, 128, 256, 512, 1024, 2048, 4096, 8192, 16384,
       32768, 65536, 131072, 262144, 524288, 1048576, 2097152, 4194304,
       8388608, 16777216, 33554432, 67108864, 134217728, 268435456,
       536870912, 1073741824 >>[n + 1]

Limb == Pow2(18)

TopLimb == Pow2(17)

\* significand + 1; up = 1 when the sum reaches 2^53
IncMant(m) ==
    IF m[3] + 1 < Limb THEN [up |-> 0, mant |-> <<m[1], m[2], m[3] + 1>>]
    ELSE IF m[2] + 1 < Limb THEN [up |-> 0, mant |-> <<m[1], m[2] + 1, 0>>]
    ELSE IF m[1] + 1 < TopLimb THEN [up |-> 0, mant |-> <<m[1] + 1, 0, 0>>]
    ELSE [up |-> 1, mant |-> <<Pow2(16), 0, 0>>]

\* rounds toward zero
RoundNearestEven_chop(m, round_bit, sticky) == [up |-> 0, mant |-> m]

\* round to nearest, ties to even: round_bit is the first dropped bit,
\* sticky says whether any later dropped bit is set
RoundNearestEven(m, round_bit, sticky) ==
    IF round_bit = 1 /\ (sticky \/ m[3] % 2 = 1)
    THEN IncMant(m)
    ELSE [up |-> 0, mant |-> m]

\* num as f64 / den as f64, for 1 <= num, den < 2^11
F64Div(num, den) ==
    LET up_shift   == CHOOSE j \in 0 .. 11 :
                          den * Pow2(j) <= num /\ num < den * Pow2(j + 1)
        down_shift == CHOOSE j \in 1 .. 11 :
                          num * Pow2(j) >= den /\ num * Pow2(j - 1) < den
        scaled_num == IF num >= den THEN num ELSE num * Pow2(down_shift)
        scaled_den == IF num >= den THEN den * Pow2(up_shift) ELSE den
        lead       == IF num >= den THEN up_shift ELSE 0 - down_shift
        top        == (scaled_num * Pow2(16)) \div scaled_den
        top_rem    == (scaled_num * Pow2(16)) % scaled_den
        middle     == (top_rem * Limb) \div scaled_den
        middle_rem == (top_rem * Limb) % scaled_den
        low        == (middle_rem * Limb) \div scaled_den
        low_rem    == (middle_rem * Limb) % scaled_den
        rounded    == RoundNearestEven(<<top, middle, low>>,
                                       (2 * low_rem) \div scaled_den,
                                       (2 * low_rem) % scaled_den # 0)
    IN  [mant |-> rounded.mant, exp |-> lead + rounded.up]

\* x * (small as f64) for 64 <= small < 128, whose product has 6 or 7
\* bits more than the significand
F64MulSmall(x, small) ==
    LET low_product    == x.mant[3] * small
        middle_product == x.mant[2] * small + low_product \div Limb
        top_product    == x.mant[1] * small + middle_product \div Limb
        low            == low_product % Limb
        middle         == middle_product % Limb
        drop           == IF top_product >= Pow2(23) THEN 7 ELSE 6
        dropped        == low % Pow2(drop)
        shifted        == << top_product \div Pow2(drop),
                             middle \div Pow2(drop)
                                 + (top_product % Pow2(drop)) * Pow2(18 - drop),
                             low \div Pow2(drop)
                                 + (middle % Pow2(drop)) * Pow2(18 - drop) >>
        rounded        == RoundNearestEven(shifted,
                                           dropped \div Pow2(drop - 1),
                                           dropped % Pow2(drop - 1) # 0)
    IN  [mant |-> rounded.mant, exp |-> x.exp + drop + rounded.up]

\* stands for every cast result of 2^31 and above (u32::MAX at most)
Saturated == 2147483647

\* `x as u32`: truncation toward zero, saturating
F64ToU32(x) ==
    IF x.exp < 0 THEN 0
    ELSE IF x.exp >= 31 THEN Saturated
    ELSE IF x.exp < 17 THEN x.mant[1] \div Pow2(16 - x.exp)
    ELSE x.mant[1] * Pow2(x.exp - 16) + x.mant[2] \div Pow2(34 - x.exp)

\* (visited as f64 / total as f64 * 100.0) as u32; 0/0 is NaN and casts to
\* 0, n/0 is infinite and saturates
F64Percentage(visited, total) ==
    IF total = 0 THEN (IF visited = 0 THEN 0 ELSE Saturated)
    ELSE IF visited = 0 THEN 0
    ELSE F64ToU32(F64MulSmall(F64Div(visited, total), 100))

-----------------------------------------------------------------------------
(* The statistics: calculate_stats, and what render_stats_view shows of it *)

\* leaves the never-been bucket empty
CountLevel_visited_only(level_counts, level) ==
    IF level = 0 THEN level_counts
    ELSE [level_counts EXCEPT ![level + 1] = @ + 1]

\* level_counts[level as usize] += 1, for a level below 6
CountLevel(level_counts, level) ==
    [level_counts EXCEPT ![level + 1] = @ + 1]

\* one point for each visited prefecture
AddScore_flat(total_score, level) ==
    total_score + (IF level > 0 THEN 1 ELSE 0)

\* total_score += level as u32 (at most 47 * 255, far from the u32 range)
AddScore(total_score, level) == total_score + level

\* counts a prefecture in its region only once it is visited
CountRegion_visited_only(pair, level) ==
    IF level > 0 THEN <<pair[1] + 1, pair[2] + 1>> ELSE pair

\* *total += 1; if level > 0 { *visited += 1 }, on the pair (visited, total)
CountRegion(pair, level) ==
    <<pair[1] + (IF level > 0 THEN 1 ELSE 0), pair[2] + 1>>

\* the values before the second loop: every region of the catalog at (0, 0)
StatsStart ==
    [level_counts |-> <<0, 0, 0, 0, 0, 0>>,
     total_score  |-> 0,
     region_stats |-> [r \in {prefectures[i].region : i \in 1 .. Len(prefectures)}
                          |-> <<0, 0>>],
     panicked     |-> FALSE]

\* the second loop, from the prefecture at position `at` on; indexing
\* level_counts with a level of 6 or more panics
RECURSIVE StatsLoop(_, _, _)
StatsLoop(stats, at, progress) ==
    IF stats.panicked \/ at > Len(prefectures) THEN stats
    ELSE LET prefecture == prefectures[at]
             level      == get_prefecture_level(progress, prefecture.name_en)
         IN  IF level >= 6 THEN [stats EXCEPT !.panicked = TRUE]
             ELSE StatsLoop(
                      [level_counts |-> CountLevel(stats.level_counts, level),
                       total_score  |-> AddScore(stats.total_score, level),
                       region_stats |->
                           [stats.region_stats EXCEPT ![prefecture.region] =
                                CountRegion(@, level)],
                       panicked     |-> FALSE],
                      at + 1, progress)

calculate_stats(progress) ==
    LET stats == StatsLoop(StatsStart, 1, progress)
    IN  [total_prefectures |-> Len(prefectures),
         total_score       |-> stats.total_score,
         level_counts      |-> stats.level_counts,
         region_stats      |-> stats.region_stats,
         panicked          |-> stats.panicked]

\* the first index that holds the maximum
max_by_key_first(counts) ==
    CHOOSE i \in 0 .. (Len(counts) - 1) :
        /\ \A j \in 0 .. (i - 1) : counts[j + 1] < counts[i + 1]
        /\ \A j \in (i + 1) .. (Len(counts) - 1) : counts[j + 1] <= counts[i + 1]

\* counts.iter().enumerate().max_by_key(|(_, count)| *count).unwrap().0:
\* of several equal maxima Iterator::max_by_key returns the last
max_by_key(counts) ==
    CHOOSE i \in 0 .. (Len(counts) - 1) :
        /\ \A j \in 0 .. (i - 1) : counts[j + 1] <= counts[i + 1]
        /\ \A j \in (i + 1) .. (Len(counts) - 1) : counts[j + 1] < counts[i + 1]

region_order ==
    <<"Hokkaido", "Tohoku", "Kanto", "Chubu", "Kansai", "Chugoku", "Shikoku",
      "Kyushu", "Okinawa">>

\* a bar segment for every 7 percent
RegionLine_narrow(pair) ==
    LET percentage == F64Percentage(pair[1], pair[2])
        bar_filled == percentage \div 7
    IN  [visited    |-> pair[1],
         total      |-> pair[2],
         percentage |-> percentage,
         bar_filled |-> bar_filled,
         bar_empty  |-> 12 - bar_filled]

\* one line of the regional breakdown
RegionLine(pair) ==
    LET percentage == F64Percentage(pair[1], pair[2])
        bar_filled == percentage \div 8
    IN  [visited    |-> pair[1],
         total      |-> pair[2],
         percentage |-> percentage,
         bar_filled |-> bar_filled,
         bar_empty  |-> 12 - bar_filled]

\* the numbers render_stats_view puts on the screen
render_stats_view(progress) ==
    LET stats                 == calculate_stats(progress)
        visited_count         == stats.total_prefectures - stats.level_counts[1]
        completion_percentage == F64Percentage(visited_count,
                                               stats.total_prefectures)
    IN  [stats                 |-> stats,
         visited_count         |-> visited_count,
         completion_percentage |-> completion_percentage,
         filled_segments       |-> completion_percentage \div 5,
         most_common           |-> max_by_key(stats.level_counts),
         region_lines          |->
             [r \in {region_order[n] : n \in 1 .. Len(region_order)}
                       \cap DOMAIN stats.region_stats
                 |-> RegionLine(stats.region_stats[r])]]

\* a popup that always describes the list selection
display_index_list_only(map_on, map_index, list_index) == list_index

\* render_detail_popup: `if app.show_map { app.map_selected_index } else
\* { app.selected_index }`
display_index(map_on, map_index, list_index) ==
    IF map_on THEN map_index ELSE list_index

\* the prefecture render_detail_popup describes; nothing when
\* prefectures.get(display_index) is None
render_detail_popup(map_on, map_index, list_index) ==
    LET index == display_index(map_on, map_index, list_index)
    IN  IF HasPrefecture(index) THEN <<PrefectureAt(index).name_en>> ELSE <<>>

\* the frame is empty of statistics unless ui() dispatches to the stats view
NoStatsFrame == <<>>

\* ui(): the map view takes precedence over the stats view
ui(map_on, stats_on, progress) ==
    IF ~map_on /\ stats_on THEN <<render_stats_view(progress)>> ELSE NoStatsFrame

----------------------------------------------------------------------------
(* main before JTermApp::new.  No JTermApp exists yet: the fields hold the  *)
(* values new() is going to give them, and the progress is not loaded.     *)

Init ==
    /\ disk \in LoadFiles
    /\ user_progress = EmptyProgress
    /\ selected_index = 0
    /\ list_state = 0
    /\ show_help = FALSE
    /\ show_map = FALSE
    /\ show_stats = FALSE
    /\ show_detail = FALSE
    /\ show_alt_map = FALSE
    /\ map_scroll = 0
    /\ map_selected_index = 0
    /\ stats_scroll = 0
    /\ prefecture_scroll = 0
    /\ save_result = "none"
    /\ pc = "new"
    /\ last_key = "none"
    /\ keys = 0
    /\ stats_frame = NoStatsFrame

\* new() that starts from the default progress whatever the file holds
New_discards_load ==
    /\ pc = "new"
    /\ IF load_fails(disk)
       THEN /\ pc' = "load_error"
            /\ UNCHANGED user_progress
       ELSE /\ pc' = "draw"
            /\ user_progress' = EmptyProgress
    /\ UNCHANGED <<view, disk, save_result, last_key, keys, stats_frame>>

\* `let mut app = JTermApp::new()?;`: load_user_progress()? either returns
\* its error from new and from main, or the app starts with what it loaded
New ==
    /\ pc = "new"
    /\ IF load_fails(disk)
       THEN /\ pc' = "load_error"
            /\ UNCHANGED user_progress
       ELSE /\ pc' = "draw"
            /\ user_progress' = load_user_progress(disk)
    /\ UNCHANGED <<view, disk, save_result, last_key, keys, stats_frame>>

----------------------------------------------------------------------------
(* run_app: one iteration draws a frame, reads one event and handles it *)

\* calculate_stats panics: its loop over the catalog meets a prefecture whose
\* level is no index of level_counts: [i32; 6]
StatsPanics(progress) ==
    \E k \in DOMAIN progress : progress[k] >= 6 /\ k \in CatalogNames

\* a draw that keeps the statistics of the frame before while the stats view
\* stays on
Draw_cached ==
    /\ pc = "draw"
    /\ ~(~show_map /\ show_stats /\ StatsPanics(user_progress))
    /\ stats_frame' = IF ~show_map /\ show_stats /\ stats_frame # NoStatsFrame
                      THEN stats_frame
                      ELSE ui(show_map, show_stats, user_progress)
    /\ pc' = "read"
    /\ UNCHANGED <<view, store, last_key, keys>>

\* a draw that brings the stats panel back to its top
Draw_rewinds_stats ==
    /\ pc = "draw"
    /\ ~(~show_map /\ show_stats /\ StatsPanics(user_progress))
    /\ stats_frame' = ui(show_map, show_stats, user_progress)
    /\ stats_scroll' = 0
    /\ pc' = "read"
    /\ UNCHANGED <<show_help, show_map, show_stats, show_detail, show_alt_map,
                   selected_index, list_state, map_scroll, map_selected_index,
                   prefecture_scroll, store, last_key, keys>>

\* terminal.draw(|f| ui(f, app))?
Draw ==
    /\ pc = "draw"
    /\ ~(~show_map /\ show_stats /\ StatsPanics(user_progress))
    /\ stats_frame' = ui(show_map, show_stats, user_progress)
    /\ pc' = "read"
    /\ UNCHANGED <<view, store, last_key, keys>>

\* ui() dispatches to render_stats_view, whose calculate_stats panics
DrawPanic ==
    /\ pc = "draw"
    /\ ~show_map /\ show_stats /\ StatsPanics(user_progress)
    /\ pc' = "panic"
    /\ UNCHANGED <<view, store, last_key, keys, stats_frame>>

DrawError ==
    /\ pc = "draw"
    /\ pc' = "error"
    /\ UNCHANGED <<view, store, last_key, keys, stats_frame>>

\* event::read()? delivered an event, which the match arm of `key` handles
Read(key) ==
    /\ pc = "read"
    /\ keys < MaxKeys
    /\ keys' = keys + 1
    /\ last_key' = key
    /\ UNCHANGED stats_frame

ReadError ==
    /\ Read("read error")
    /\ pc' = "error"
    /\ UNCHANGED <<view, store>>

\* a non-key event that leaves the loop
NonKeyEvent_ends_loop ==
    /\ Read("non-key")
    /\ pc' = "quit"
    /\ UNCHANGED <<view, store>>

\* an event that is not Event::Key
NonKeyEvent ==
    /\ Read("non-key")
    /\ pc' = "draw"
    /\ UNCHANGED <<view, store>>

\* 'q' that saves the progress on the way out
KeyQuit_saves ==
    /\ Read("q")
    /\ pc' = "quit"
    /\ disk' = FileOf(user_progress)
    /\ save_result' = "ok"
    /\ UNCHANGED <<view, user_progress>>

KeyQuit ==
    /\ Read("q")
    /\ pc' = "quit"
    /\ UNCHANGED <<view, store>>

KeyHelp ==
    /\ Read("h")
    /\ show_help' = ~show_help
    /\ pc' = "draw"
    /\ UNCHANGED <<show_map, show_stats, show_detail, show_alt_map,
                   selected_index, list_state, map_scroll, map_selected_index,
                   stats_scroll, prefecture_scroll, store>>

\* 'm' that leaves show_stats alone
KeyM_keeps_stats ==
    /\ Read("m")
    /\ show_map' = ~show_map
    /\ show_alt_map' = FALSE
    /\ pc' = "draw"
    /\ UNCHANGED <<show_stats, show_help, show_detail, selected_index,
                   list_state, map_scroll, map_selected_index, stats_scroll,
                   prefecture_scroll, store>>

\* 'm' that also closes the overlays
KeyM_closes_overlays ==
    /\ Read("m")
    /\ show_map' = ~show_map
    /\ show_stats' = FALSE
    /\ show_alt_map' = FALSE
    /\ show_help' = FALSE
    /\ show_detail' = FALSE
    /\ pc' = "draw"
    /\ UNCHANGED <<selected_index, list_state, map_scroll,
                   map_selected_index, stats_scroll, prefecture_scroll, store>>

\* 'm' that resets the map cursor
KeyM_resets_cursor ==
    /\ Read("m")
    /\ show_map' = ~show_map
    /\ show_stats' = FALSE
    /\ show_alt_map' = FALSE
    /\ map_scroll' = 0
    /\ map_selected_index' = 0
    /\ pc' = "draw"
    /\ UNCHANGED <<show_help, show_detail, selected_index, list_state,
                   stats_scroll, prefecture_scroll, store>>

KeyM ==
    /\ Read("m")
    /\ show_map' = ~show_map
    /\ show_stats' = FALSE
    /\ show_alt_map' = FALSE
    /\ pc' = "draw"
    /\ UNCHANGED <<show_help, show_detail, selected_index, list_state,
                   map_scroll, map_selected_index, stats_scroll,
                   prefecture_scroll, store>>

\* 's' that leaves show_map alone
KeyS_keeps_map ==
    /\ Read("s")
    /\ show_stats' = ~show_stats
    /\ show_alt_map' = FALSE
    /\ pc' = "draw"
    /\ UNCHANGED <<show_map, show_help, show_detail, selected_index,
                   list_state, map_scroll, map_selected_index, stats_scroll,
                   prefecture_scroll, store>>

KeyS ==
    /\ Read("s")
    /\ show_stats' = ~show_stats
    /\ show_map' = FALSE
    /\ show_alt_map' = FALSE
    /\ pc' = "draw"
    /\ UNCHANGED <<show_help, show_detail, selected_index, list_state,
                   map_scroll, map_selected_index, stats_scroll,
                   prefecture_scroll, store>>

KeyW ==
    /\ Read("w")
    /\ show_alt_map' = ~show_alt_map
    /\ show_map' = FALSE
    /\ show_stats' = FALSE
    /\ pc' = "draw"
    /\ UNCHANGED <<show_help, show_detail, selected_index, list_state,
                   map_scroll, map_selected_index, stats_scroll,
                   prefecture_scroll, store>>

\* Up that in map view moves the map selection and not the map
KeyUp_moves_selection ==
    /\ Read("Up")
    /\ pc' = "draw"
    /\ IF show_map
       THEN /\ map_selected_index' = IF map_selected_index > 0
                                     THEN map_selected_index - 1 ELSE map_selected_index
            /\ UNCHANGED <<map_scroll, stats_scroll, prefecture_scroll,
                           selected_index, list_state>>
       ELSE /\ selected_index' = IF selected_index > 0
                                 THEN selected_index - 1 ELSE selected_index
            /\ list_state' = selected_index'
            /\ UNCHANGED <<map_selected_index, map_scroll, stats_scroll,
                           prefecture_scroll>>
    /\ UNCHANGED <<show_help, show_map, show_stats, show_detail, show_alt_map,
                   store>>

KeyUp ==
    /\ Read("Up")
    /\ pc' = "draw"
    /\ IF show_map
       THEN /\ map_scroll' = IF map_scroll > 0 THEN map_scroll - 1 ELSE map_scroll
            /\ UNCHANGED <<stats_scroll, prefecture_scroll, selected_index, list_state>>
       ELSE IF show_stats
       THEN /\ stats_scroll' = IF stats_scroll > 0 THEN stats_scroll - 1 ELSE stats_scroll
            /\ UNCHANGED <<map_scroll, prefecture_scroll, selected_index, list_state>>
       ELSE IF show_alt_map
       THEN /\ prefecture_scroll' = IF prefecture_scroll > 0
                                    THEN prefecture_scroll - 1 ELSE prefecture_scroll
            /\ UNCHANGED <<map_scroll, stats_scroll, selected_index, list_state>>
       ELSE IF selected_index > 0
       THEN /\ selected_index' = selected_index - 1
            /\ list_state' = selected_index'
            /\ UNCHANGED <<map_scroll, stats_scroll, prefecture_scroll>>
       ELSE UNCHANGED <<map_scroll, stats_scroll, prefecture_scroll,
                        selected_index, list_state>>
    /\ UNCHANGED <<show_help, show_map, show_stats, show_detail, show_alt_map,
                   map_selected_index, store>>

KeyDown ==
    /\ Read("Down")
    /\ pc' = "draw"
    /\ IF show_map
       THEN /\ map_scroll' = IF map_scroll < MapMaxScroll(map_selected_index, user_progress)
                             THEN map_scroll + 1 ELSE map_scroll
            /\ UNCHANGED <<stats_scroll, prefecture_scroll, selected_index, list_state>>
       ELSE IF show_stats
       THEN /\ stats_scroll' = IF stats_scroll < StatsMaxScroll
                               THEN stats_scroll + 1 ELSE stats_scroll
            /\ UNCHANGED <<map_scroll, prefecture_scroll, selected_index, list_state>>
       ELSE IF show_alt_map
       THEN /\ prefecture_scroll' = IF prefecture_scroll < SidebarMaxScroll
                                    THEN prefecture_scroll + 1 ELSE prefecture_scroll
            /\ UNCHANGED <<map_scroll, stats_scroll, selected_index, list_state>>
       ELSE IF selected_index < Len(prefectures) - 1
       THEN /\ selected_index' = selected_index + 1
            /\ list_state' = selected_index'
            /\ UNCHANGED <<map_scroll, stats_scroll, prefecture_scroll>>
       ELSE UNCHANGED <<map_scroll, stats_scroll, prefecture_scroll,
                        selected_index, list_state>>
    /\ UNCHANGED <<show_help, show_map, show_stats, show_detail, show_alt_map,
                   map_selected_index, store>>

\* moves left and leaves the scroll offset alone
KeyLeft_no_scroll ==
    /\ Read("Left")
    /\ pc' = "draw"
    /\ IF show_map /\ map_selected_index > 0
       THEN /\ map_selected_index' = map_selected_index - 1
            /\ UNCHANGED map_scroll
       ELSE UNCHANGED <<map_selected_index, map_scroll>>
    /\ UNCHANGED <<show_help, show_map, show_stats, show_detail, show_alt_map,
                   selected_index, list_state, stats_scroll, prefecture_scroll,
                   store>>

KeyLeft ==
    /\ Read("Left")
    /\ pc' = "draw"
    /\ IF show_map /\ map_selected_index > 0
       THEN /\ map_selected_index' = map_selected_index - 1
            /\ map_scroll' = ensure_selected_visible(map_selected_index', map_scroll)
       ELSE UNCHANGED <<map_selected_index, map_scroll>>
    /\ UNCHANGED <<show_help, show_map, show_stats, show_detail, show_alt_map,
                   selected_index, list_state, stats_scroll, prefecture_scroll,
                   store>>

\* moves right without looking at the catalog length
KeyRight_unclamped ==
    /\ Read("Right")
    /\ pc' = "draw"
    /\ IF show_map
       THEN /\ map_selected_index' = map_selected_index + 1
            /\ map_scroll' = ensure_selected_visible(map_selected_index', map_scroll)
       ELSE UNCHANGED <<map_selected_index, map_scroll>>
    /\ UNCHANGED <<show_help, show_map, show_stats, show_detail, show_alt_map,
                   selected_index, list_state, stats_scroll, prefecture_scroll,
                   store>>

\* Right that moves the map selection whatever view is shown
KeyRight_any_mode ==
    /\ Read("Right")
    /\ pc' = "draw"
    /\ IF map_selected_index < Len(prefectures) - 1
       THEN /\ map_selected_index' = map_selected_index + 1
            /\ map_scroll' = ensure_selected_visible(map_selected_index', map_scroll)
       ELSE UNCHANGED <<map_selected_index, map_scroll>>
    /\ UNCHANGED <<show_help, show_map, show_stats, show_detail, show_alt_map,
                   selected_index, list_state, stats_scroll, prefecture_scroll,
                   store>>

KeyRight ==
    /\ Read("Right")
    /\ pc' = "draw"
    /\ IF show_map /\ map_selected_index < Len(prefectures) - 1
       THEN /\ map_selected_index' = map_selected_index + 1
            /\ map_scroll' = ensure_selected_visible(map_selected_index', map_scroll)
       ELSE UNCHANGED <<map_selected_index, map_scroll>>
    /\ UNCHANGED <<show_help, show_map, show_stats, show_detail, show_alt_map,
                   selected_index, list_state, stats_scroll, prefecture_scroll,
                   store>>

KeyEnter ==
    /\ Read("Enter")
    /\ show_detail' = ~show_detail
    /\ pc' = "draw"
    /\ UNCHANGED <<show_help, show_map, show_stats, show_alt_map,
                   selected_index, list_state, map_scroll, map_selected_index,
                   stats_scroll, prefecture_scroll, store>>

\* Esc that toggles the detail flag as Enter does
KeyEsc_toggles ==
    /\ Read("Esc")
    /\ show_detail' = ~show_detail
    /\ pc' = "draw"
    /\ UNCHANGED <<show_help, show_map, show_stats, show_alt_map,
                   selected_index, list_state, map_scroll, map_selected_index,
                   stats_scroll, prefecture_scroll, store>>

KeyEsc ==
    /\ Read("Esc")
    /\ show_detail' = FALSE
    /\ pc' = "draw"
    /\ UNCHANGED <<show_help, show_map, show_stats, show_alt_map,
                   selected_index, list_state, map_scroll, map_selected_index,
                   stats_scroll, prefecture_scroll, store>>

\* the name of the digit key of a level
LevelKey(level) == <<"0", "1", "2", "3", "4", "5">>[level + 1]

LevelKeys == {LevelKey(level) : level \in Levels}

\* `let _ = app.save_progress();`
AfterSave_ignored(ok) == "draw"

\* where run_app goes after save_progress()?
AfterSave(ok) == IF ok THEN "draw" ELSE "error"

\* KeyCode::Char('0') .. Char('5'): set_prefecture_level, then save_progress()?
KeyLevel ==
    \E level \in Levels, ok \in BOOLEAN :
        /\ Read(LevelKey(level))
        /\ user_progress' = set_prefecture_level(user_progress, show_map,
                                map_selected_index, selected_index, level)
        /\ disk' \in SaveOutcomes(disk, user_progress', ok)
        /\ save_result' = IF ok THEN "ok" ELSE "err"
        /\ pc' = AfterSave(ok)
        /\ UNCHANGED view

\* where run_app goes after `match app.export_to_json() { Ok(_) => {},
\* Err(_) => {} }` and the same match on export_to_csv: both arms are empty
AfterExport(ok) == "draw"

\* export_to_json: writes ~/jterm_export.json, its result is dropped
KeyExportJson ==
    \E ok \in BOOLEAN :
        /\ Read("e")
        /\ ~StatsPanics(user_progress)
        /\ pc' = AfterExport(ok)
        /\ UNCHANGED <<view, store>>

\* export_to_json begins with calculate_stats(), which panics
KeyExportJsonPanic ==
    /\ Read("e")
    /\ StatsPanics(user_progress)
    /\ pc' = "panic"
    /\ UNCHANGED <<view, store>>

\* export_to_csv: writes ~/jterm_export.csv, its result is dropped
KeyExportCsv ==
    \E ok \in BOOLEAN :
        /\ Read("x")
        /\ pc' = AfterExport(ok)
        /\ UNCHANGED <<view, store>>

\* a fall-through arm that clears the selected prefecture's level
KeyOther_clears_level ==
    /\ Read("other")
    /\ user_progress' = set_prefecture_level(user_progress, show_map,
                            map_selected_index, selected_index, 0)
    /\ pc' = "draw"
    /\ UNCHANGED <<view, disk, save_result>>

\* the `_ => {}` arm
KeyOther ==
    /\ Read("other")
    /\ pc' = "draw"
    /\ UNCHANGED <<view, store>>

run_app ==
    \/ Draw
    \/ DrawPanic
    \/ DrawError
    \/ ReadError
    \/ NonKeyEvent
    \/ KeyQuit
    \/ KeyHelp
    \/ KeyM
    \/ KeyS
    \/ KeyW
    \/ KeyUp
    \/ KeyDown
    \/ KeyLeft
    \/ KeyRight
    \/ KeyEnter
    \/ KeyEsc
    \/ KeyLevel
    \/ KeyExportJson
    \/ KeyExportJsonPanic
    \/ KeyExportCsv
    \/ KeyOther

Next ==
    \/ New
    \/ run_app

Spec == Init /\ [][Next]_vars

----------------------------------------------------------------------------
(* The loop resumed after earlier navigation.  Every combination of the    *)
(* cursors within their ranges is reachable from Init: Up/Down in list     *)
(* view set selected_index, Left/Right in map view set map_selected_index, *)
(* Up/Down in map, stats and alt-map view then set each scroll offset.     *)
(* InitFrom picks one view with its own cursors anywhere in their range    *)
(* and the cursors of the other views at fixed values, and the loop reads  *)
(* one more event.                                                         *)

SetMode(mode) ==
    /\ show_map = (mode = "Map")
    /\ show_stats = (mode = "Stats")
    /\ show_alt_map = (mode = "AltMap")

InitFrom ==
    /\ disk \in StartFiles
    /\ user_progress = load_user_progress(disk)
    /\ save_result = "none"
    /\ show_help = FALSE
    /\ show_detail \in BOOLEAN
    /\ \/ /\ SetMode("List")
          /\ selected_index \in Indices
          /\ map_selected_index = 12 /\ map_scroll = 3
          /\ stats_scroll = 5 /\ prefecture_scroll = 9
       \/ /\ SetMode("Map")
          /\ map_selected_index \in Indices
          /\ map_scroll \in 0 .. MapMaxScroll(map_selected_index, user_progress)
          /\ selected_index = 30
          /\ stats_scroll = 5 /\ prefecture_scroll = 9
       \/ /\ SetMode("Stats")
          /\ stats_scroll \in 0 .. StatsMaxScroll
          /\ selected_index \in {0, 30, Len(prefectures) - 1}
          /\ map_selected_index = 12 /\ map_scroll = 3
          /\ prefecture_scroll = 9
          /\ ~StatsPanics(user_progress)
       \/ /\ SetMode("AltMap")
          /\ prefecture_scroll \in 0 .. SidebarMaxScroll
          /\ selected_index \in {0, 30, Len(prefectures) - 1}
          /\ map_selected_index = 12 /\ map_scroll = 3
          /\ stats_scroll = 5
    /\ list_state = selected_index
    /\ stats_frame = ui(show_map, show_stats, user_progress)
    /\ pc = "read"
    /\ last_key = "none"
    /\ keys = MaxKeys - 1

SpecFrom == InitFrom /\ [][run_app]_vars

----------------------------------------------------------------------------
(* ensure_selected_visible on its own: every selection, every prior scroll *)

InitVisible ==
    /\ disk = NoFile
    /\ user_progress = EmptyProgress
    /\ save_result = "none"
    /\ show_help = FALSE
    /\ show_detail = FALSE
    /\ SetMode("Map")
    /\ selected_index = 0
    /\ list_state = 0
    /\ stats_scroll = 0
    /\ prefecture_scroll = 0
    /\ map_selected_index \in Indices
    /\ map_scroll \in 0 .. (Len(render_map(map_selected_index, user_progress))
                            + ScrollSlack)
    /\ pc = "read"
    /\ last_key = "none"
    /\ keys = 0
    /\ stats_frame = NoStatsFrame

\* one call; keys counts the calls made so far
EnsureVisible ==
    /\ keys < MaxKeys
    /\ map_scroll' = ensure_selected_visible(map_selected_index, map_scroll)
    /\ last_key' = "ensure_selected_visible"
    /\ keys' = keys + 1
    /\ UNCHANGED <<show_help, show_map, show_stats, show_detail, show_alt_map,
                   selected_index, list_state, map_selected_index,
                   stats_scroll, prefecture_scroll, store, pc, stats_frame>>

NextVisible == EnsureVisible

SpecVisible == InitVisible /\ [][NextVisible]_vars

-----------------------------------------------------------------------------
(* render_stats_view on its own: the loop is about to draw the stats view   *)
(* over a progress file of up to two runs of catalog entries.  The entries  *)
(* before `split` hold `first` (or are missing when first is -1), those     *)
(* from `split` to before `stop` hold `second`, the rest are missing, and   *)
(* `stray` adds a key that names no prefecture.                             *)

StatsProgress(split, stop, first, second, stray) ==
    [k \in {PrefectureAt(i).name_en :
                i \in {j \in 0 .. (stop - 1) : j >= split \/ first >= 0}}
            \cup (IF stray THEN {"Atlantis"} ELSE {})
        |-> IF k = "Atlantis" THEN 2
            ELSE IF \E i \in 0 .. (split - 1) : PrefectureAt(i).name_en = k
                 THEN first
                 ELSE second]

\* the levels tried for the first run (-1: no entries) and for the second
FirstLevels == {-1, 0, 2, 5}

SecondLevels == {0, 3, 5}

InitStats ==
    /\ \E split \in 0 .. Len(prefectures) :
         \E stop \in split .. Len(prefectures) :
           \E first \in FirstLevels, second \in SecondLevels, stray \in BOOLEAN :
              user_progress = StatsProgress(split, stop, first, second, stray)
    /\ disk = FileOf(user_progress)
    /\ save_result = "none"
    /\ show_help = FALSE
    /\ show_detail = FALSE
    /\ SetMode("Stats")
    /\ selected_index = 0
    /\ list_state = 0
    /\ map_selected_index = 0
    /\ map_scroll = 0
    /\ stats_scroll = 0
    /\ prefecture_scroll = 0
    /\ stats_frame = NoStatsFrame
    /\ pc = "draw"
    /\ last_key = "s"
    /\ keys = MaxKeys

NextStats == Draw

SpecStats == InitStats /\ [][NextStats]_vars

----------------------------------------------------------------------------
(* Vocabulary of the properties *)

\* the view ui() draws
ActiveMode ==
    IF show_map THEN "Map"
    ELSE IF show_stats THEN "Stats"
    ELSE IF show_alt_map THEN "AltMap"
    ELSE "List"

ModeKeys == {"m", "s", "w"}

ModeOfKey(key) ==
    IF key = "m" THEN "Map" ELSE IF key = "s" THEN "Stats" ELSE "AltMap"

\* this step is the iteration of run_app that handles `key`
KeyStep(key) == pc = "read" /\ keys' = keys + 1 /\ last_key' = key

ModeToggleStep == \E key \in ModeKeys : KeyStep(key)

LevelStep(level) == KeyStep(LevelKey(level))

\* the stats view is on the screen, drawn from the progress as it is now
StatsShown == pc = "read" /\ stats_frame # NoStatsFrame

\* the Region field values of the catalog
CatalogRegions == {PrefectureAt(i).region : i \in Indices}

\* the catalog indices of one region
RegionMembers(region) == {i \in Indices : PrefectureAt(i).region = region}

\* the level of the prefecture at a catalog index, absent meaning 0
LevelAt(progress, index) == get_prefecture_level(progress, NameAt(index))

\* the catalog indices that hold a given level
AtLevel(progress, level) == {i \in Indices : LevelAt(progress, i) = level}

RECURSIVE SumOver(_, _)
SumOver(f, S) ==
    IF S = {} THEN 0
    ELSE LET x == CHOOSE y \in S : TRUE
         IN  f[x] + SumOver(f, S \ {x})

\* the stats of the empty progress
EmptyStats == calculate_stats(EmptyProgress)

\* the progress without its entries of level 0
WithoutZeros(progress) ==
    [k \in {n \in DOMAIN progress : progress[n] # 0} |-> progress[k]]

\* the progress with an entry of level 0 for every prefecture it lacks
WithZeros(progress) ==
    [k \in (DOMAIN progress) \cup CatalogNames |->
        IF k \in DOMAIN progress THEN progress[k] ELSE 0]

\* the progress without the keys that name no prefecture
CatalogOnly(progress) ==
    [k \in (DOMAIN progress) \cap CatalogNames |-> progress[k]]

----------------------------------------------------------------------------
(* Properties *)

\* C1: in every reachable state at most one of show_map, show_stats and
\* show_alt_map is set, and exactly one of List, Map, Stats, AltMap is the
\* active mode, List being the one when no flag is set.
C1_ExactlyOneMode ==
    /\ Cardinality({f \in {1, 2, 3} : <<show_map, show_stats, show_alt_map>>[f]}) <= 1
    /\ Cardinality({m \in {"List", "Map", "Stats", "AltMap"} :
            \/ m = "Map" /\ show_map
            \/ m = "Stats" /\ show_stats
            \/ m = "AltMap" /\ show_alt_map
            \/ m = "List" /\ ~show_map /\ ~show_stats /\ ~show_alt_map}) = 1
    /\ (ActiveMode = "List") <=> (~show_map /\ ~show_stats /\ ~show_alt_map)

C1_Witness == last_key = "w" /\ show_alt_map /\ map_scroll > 0

\* C2 as stated: right after a mode key that activated its mode, the detail
\* overlay and the help overlay are both closed.
C2_OverlaysClosedOnActivate ==
    (pc = "draw" /\ last_key \in ModeKeys /\ ActiveMode = ModeOfKey(last_key))
        => (~show_detail /\ ~show_help)

\* C2 amended: a mode key (m, s, w) leaves show_detail and show_help as they
\* were, whether it activates or deactivates its mode.
C2_OverlaysKeptOnToggle ==
    [][ModeToggleStep => (show_detail' = show_detail /\ show_help' = show_help)]_vars

C2_Witness ==
    pc = "draw" /\ last_key = "m" /\ show_map /\ show_detail /\ show_help

\* C3: a mode key pressed while its mode is active makes List the active
\* mode; pressed while any other mode is active it makes its mode active.
C3_ToggleTarget ==
    [][\A key \in ModeKeys :
          KeyStep(key) =>
             IF ActiveMode = ModeOfKey(key)
             THEN ActiveMode' = "List"
             ELSE ActiveMode' = ModeOfKey(key)]_vars

C3_Witness == pc = "draw" /\ last_key = "s" /\ show_stats /\ map_scroll > 0

\* C4: a mode key changes neither selection index, none of the three scroll
\* offsets and not the progress; so Map on and off again leaves the map
\* selection and the map scroll as they were.
C4_ToggleFrame ==
    [][ModeToggleStep =>
          UNCHANGED <<selected_index, list_state, map_selected_index,
                      map_scroll, stats_scroll, prefecture_scroll,
                      user_progress>>]_vars

C4_Witness ==
    /\ pc = "draw" /\ last_key = "m" /\ ActiveMode = "List"
    /\ map_selected_index > 0 /\ map_scroll > 0

\* C5: after a level key set the selected prefecture to L, get_prefecture_level
\* of that prefecture is L; get_prefecture_level of a name absent from the
\* mapping is 0.
C5_SetThenGet ==
    /\ [][\A level \in Levels :
             LevelStep(level) =>
                get_prefecture_level(user_progress',
                    NameAt(IF show_map THEN map_selected_index
                                       ELSE selected_index)) = level]_vars
    /\ [](\A name \in CatalogNames :
             name \notin DOMAIN user_progress
                => get_prefecture_level(user_progress, name) = 0)

C5_Witness ==
    /\ pc = "draw" /\ last_key = "3" /\ map_selected_index = 12 /\ show_map
    /\ get_prefecture_level(user_progress, "Tokyo") = 3
    /\ "Hokkaido" \notin DOMAIN user_progress

\* C6: a level key writes its level to the catalog entry at
\* map_selected_index in map view and at selected_index in every other view;
\* every other key of the mapping and every field of the view state is
\* unchanged.
C6_LevelWritesOneRegion ==
    [][\A level \in Levels :
          LevelStep(level) =>
             LET index == IF ActiveMode = "Map" THEN map_selected_index
                                                ELSE selected_index
                 name  == NameAt(index)
             IN  /\ name \in DOMAIN user_progress'
                 /\ user_progress'[name] = level
                 /\ DOMAIN user_progress' = (DOMAIN user_progress) \cup {name}
                 /\ \A k \in (DOMAIN user_progress) \ {name} :
                        user_progress'[k] = user_progress[k]
                 /\ UNCHANGED view]_vars

C6_Witness ==
    /\ pc = "draw" /\ last_key = "4" /\ ActiveMode = "Stats"
    /\ selected_index = Len(prefectures) - 1
    /\ get_prefecture_level(user_progress, "Okinawa") = 4
    /\ get_prefecture_level(user_progress, "Tokyo") = 5

\* C7: once JTermApp::new has loaded the progress, only a level key changes
\* the in-memory progress.
C7_OnlyLevelKeysMutate ==
    [][(pc # "new" /\ user_progress' # user_progress) =>
          \E level \in Levels : LevelStep(level)]_vars

C7_Witness ==
    pc = "draw" /\ last_key = "x" /\ save_result = "ok" /\ user_progress # EmptyProgress

\* C8: a level key saves the whole progress before the next event is read;
\* whenever the loop waits for an event, the file holds the in-memory mapping.
C8_PersistedEqualsMemory ==
    /\ (pc = "read") =>
          /\ disk.exists => disk.parses
          /\ load_user_progress(disk) = user_progress
    /\ (last_key \in LevelKeys /\ pc \in {"draw", "read"}) =>
          disk = FileOf(user_progress)

C8_Witness ==
    /\ pc = "read" /\ last_key = "3" /\ keys >= 2
    /\ disk = FileOf(user_progress)
    /\ Cardinality(DOMAIN user_progress) >= 2

\* C9 as stated: after a failed save the loop is still running.
C9_LoopSurvivesSaveFailure ==
    (save_result = "err") => (pc \in {"draw", "read"})

\* C9 amended: a failed save ends the input loop: run_app returns the error
\* and handles no further event.
C9_SaveFailureEndsLoop ==
    /\ [](save_result = "err" => pc = "error")
    /\ [][save_result # "err"]_vars

C9_Witness ==
    /\ save_result = "err" /\ pc = "error" /\ last_key = "5"
    /\ get_prefecture_level(user_progress, "Hokkaido") = 5
    /\ ~disk.exists

\* C10: after ensure_selected_visible, with the viewport height 25, the line
\* of the selected prefecture is inside the viewport, for every selection
\* and every prior scroll offset.
C10_SelectedLineVisible ==
    (last_key = "ensure_selected_visible") =>
        /\ map_scroll <= get_prefecture_line(map_selected_index)
        /\ get_prefecture_line(map_selected_index) < map_scroll + 25

C10_Witness ==
    /\ last_key = "ensure_selected_visible"
    /\ map_selected_index = Len(prefectures) - 1
    /\ map_scroll + 25 = get_prefecture_line(map_selected_index) + 1

\* C11: a call of ensure_selected_visible, with the viewport height 25, sets
\* the scroll-top to the target line when that line is above the scroll-top,
\* to max(0, target line + 1 - 25) when the line is at or beyond scroll-top
\* + 25, and leaves it alone otherwise; a call that follows a call changes
\* nothing.
C11_ThreeCaseRule ==
    [][(keys' = keys + 1 /\ last_key' = "ensure_selected_visible") =>
          LET line == get_prefecture_line(map_selected_index)
          IN  /\ (line < map_scroll) => (map_scroll' = line)
              /\ (line >= map_scroll + 25) =>
                     (map_scroll' = IF line + 1 >= 25 THEN line + 1 - 25 ELSE 0)
              /\ (map_scroll <= line /\ line < map_scroll + 25) =>
                     (map_scroll' = map_scroll)
              /\ (last_key = "ensure_selected_visible") =>
                     (map_scroll' = map_scroll)]_vars

C11_Witness ==
    /\ last_key = "ensure_selected_visible"
    /\ keys = 2
    /\ map_selected_index = 0
    /\ map_scroll = 0

\* C12: for the selected index, whichever of 0..46 it is, get_prefecture_line
\* gives the 0-based position in the output of render_map of the line of that
\* prefecture (the prefecture line that has exactly that many prefecture
\* lines before it), which is the one line carrying the selection indicator;
\* both walk the same number of zones with the same prefecture counts.
C12_LineMatchesRenderer ==
    LET map_lines == render_map(map_selected_index, user_progress)
        line      == get_prefecture_line(map_selected_index)
    IN  /\ line + 1 <= Len(map_lines)
        /\ map_lines[line + 1].kind = "prefecture"
        /\ Cardinality({n \in 1 .. line : map_lines[n].kind = "prefecture"})
               = map_selected_index
        /\ \A n \in 1 .. Len(map_lines) :
              map_lines[n].indicator <=> (n = line + 1)
        /\ Len(LineZoneCounts) = Len(MapZones)
        /\ \A z \in 1 .. Len(MapZones) : LineZoneCounts[z] = Len(MapZones[z])

C12_Witness ==
    /\ map_selected_index = 46
    /\ get_prefecture_line(map_selected_index) = 71
    /\ Len(render_map(map_selected_index, user_progress)) = 73
    /\ render_map(map_selected_index, user_progress)[72].indicator
    /\ render_map(map_selected_index, user_progress)[72].name_en = "Okinawa"

\* C13: in the stats the view shows, the six level counts sum to 47, the
\* totals of the regions sum to 47, and the total of each region is the
\* number of catalog entries carrying that region, every entry carrying one
\* region of the output.
C13_CountsCoverCatalog ==
    StatsShown =>
        LET stats == stats_frame[1].stats
        IN  /\ SumOver(stats.level_counts, 1 .. 6) = 47
            /\ SumOver([r \in DOMAIN stats.region_stats |->
                            stats.region_stats[r][2]],
                       DOMAIN stats.region_stats) = 47
            /\ \A r \in DOMAIN stats.region_stats :
                  stats.region_stats[r][2] = Cardinality(RegionMembers(r))
            /\ \A i \in Indices :
                  PrefectureAt(i).region \in DOMAIN stats.region_stats

C13_Witness ==
    /\ StatsShown
    /\ stats_frame[1].stats.level_counts = <<20, 0, 0, 12, 0, 15>>

\* C14: the total score shown is the sum of the levels of the 47 catalog
\* prefectures (absent = 0) and the visited count of each region is the
\* number of its prefectures with a level above 0: only Tokyo at 5 gives
\* score 5 and Kanto 1 of 7, the empty progress gives score 0 and no visit.
C14_ScoreAndVisited ==
    StatsShown =>
        LET stats == stats_frame[1].stats
        IN  /\ stats.total_score
                  = 1 * Cardinality(AtLevel(user_progress, 1))
                    + 2 * Cardinality(AtLevel(user_progress, 2))
                    + 3 * Cardinality(AtLevel(user_progress, 3))
                    + 4 * Cardinality(AtLevel(user_progress, 4))
                    + 5 * Cardinality(AtLevel(user_progress, 5))
            /\ \A r \in DOMAIN stats.region_stats :
                  stats.region_stats[r][1]
                      = Cardinality({i \in RegionMembers(r) :
                                        LevelAt(user_progress, i) > 0})
            /\ (user_progress = [k \in {"Tokyo"} |-> 5]) =>
                  /\ stats.total_score = 5
                  /\ stats.region_stats["Kanto"] = <<1, 7>>
            /\ (user_progress = EmptyProgress) =>
                  /\ stats.total_score = 0
                  /\ \A r \in DOMAIN stats.region_stats :
                        stats.region_stats[r][1] = 0

C14_Witness ==
    /\ StatsShown
    /\ user_progress = [k \in {"Tokyo"} |-> 5]
    /\ stats_frame[1].stats.total_score = 5
    /\ stats_frame[1].stats.region_stats["Kanto"] = <<1, 7>>

\* C15: the region output has exactly the 9 regions of the catalog, each
\* with a total of at least 1 that is the same as for the empty progress,
\* and with visited <= total; the keys of the progress that name no
\* prefecture change nothing in the stats.
C15_EveryRegionOnce ==
    StatsShown =>
        LET stats == stats_frame[1].stats
        IN  /\ DOMAIN stats.region_stats = CatalogRegions
            /\ Cardinality(DOMAIN stats.region_stats) = 9
            /\ DOMAIN stats_frame[1].region_lines = CatalogRegions
            /\ \A r \in DOMAIN stats.region_stats :
                  /\ stats.region_stats[r][2] >= 1
                  /\ stats.region_stats[r][2] = EmptyStats.region_stats[r][2]
                  /\ stats.region_stats[r][1] <= stats.region_stats[r][2]
            /\ stats = calculate_stats(CatalogOnly(user_progress))

C15_Witness ==
    /\ StatsShown
    /\ "Atlantis" \in DOMAIN user_progress
    /\ stats_frame[1].stats.region_stats["Okinawa"] = <<0, 1>>
    /\ stats_frame[1].stats.region_stats["Tohoku"] = <<6, 6>>

\* C16 as stated: the most common level shown has the maximum count, and of
\* several levels with the maximum count it is the smallest.
C16_SmallestOnTies ==
    StatsShown =>
        LET counts == stats_frame[1].stats.level_counts
            most   == stats_frame[1].most_common
        IN  \A level \in Levels :
              /\ counts[level + 1] <= counts[most + 1]
              /\ (counts[level + 1] = counts[most + 1]) => (most <= level)

\* C16: the most common level shown has the maximum count, and of several
\* levels with the maximum count it is the largest.
C16_LargestOnTies ==
    StatsShown =>
        LET counts == stats_frame[1].stats.level_counts
            most   == stats_frame[1].most_common
        IN  \A level \in Levels :
              /\ counts[level + 1] <= counts[most + 1]
              /\ (counts[level + 1] = counts[most + 1]) => (level <= most)

C16_Witness ==
    /\ StatsShown
    /\ stats_frame[1].stats.level_counts[1] = 20
    /\ stats_frame[1].stats.level_counts[6] = 20
    /\ stats_frame[1].most_common = 5

\* C17: the completion percentage shown is the truncated quotient
\* visited * 100 / 47 and the percentage of each region is the truncated
\* quotient visited * 100 / total of that region.
C17_PercentageTruncates ==
    StatsShown =>
        LET shown == stats_frame[1]
        IN  /\ shown.stats.total_prefectures = 47
            /\ shown.completion_percentage = (shown.visited_count * 100) \div 47
            /\ \A r \in DOMAIN shown.region_lines :
                  /\ shown.region_lines[r].visited = shown.stats.region_stats[r][1]
                  /\ shown.region_lines[r].total = shown.stats.region_stats[r][2]
                  /\ shown.region_lines[r].percentage
                        = (shown.region_lines[r].visited * 100)
                              \div shown.region_lines[r].total

C17_Witness ==
    /\ StatsShown
    /\ stats_frame[1].visited_count = 23
    /\ stats_frame[1].completion_percentage = 48
    /\ stats_frame[1].region_lines["Chugoku"].visited = 1
    /\ stats_frame[1].region_lines["Chugoku"].percentage = 20

\* C18: the level of every prefecture and the stats shown are the same for
\* the progress, for the progress without its entries of level 0, and for
\* the progress with an entry of level 0 for every prefecture it lacks.
C18_ZeroIsAbsence ==
    StatsShown =>
        LET stripped == WithoutZeros(user_progress)
            filled   == WithZeros(user_progress)
        IN  /\ stats_frame[1].stats = calculate_stats(stripped)
            /\ stats_frame[1].stats = calculate_stats(filled)
            /\ \A i \in Indices :
                  /\ LevelAt(user_progress, i) = LevelAt(stripped, i)
                  /\ LevelAt(user_progress, i) = LevelAt(filled, i)

C18_Witness ==
    /\ StatsShown
    /\ "Hokkaido" \in DOMAIN user_progress
    /\ user_progress["Hokkaido"] = 0
    /\ "Tokyo" \in DOMAIN user_progress
    /\ user_progress["Tokyo"] = 5
    /\ "Okinawa" \notin DOMAIN user_progress
    /\ stats_frame[1].stats.total_score > 0

\* C19: selected_index and map_selected_index are always catalog indices in
\* 0..46; Up at 0 and Down at 46 in list view, and Left at 0 and Right at 46
\* in map view, leave the index where it is.
C19_IndicesInRange ==
    /\ [](selected_index \in 0 .. 46 /\ map_selected_index \in 0 .. 46)
    /\ [][((KeyStep("Up") /\ ActiveMode = "List" /\ selected_index = 0)
              => (selected_index' = 0))
           /\ ((KeyStep("Down") /\ ActiveMode = "List" /\ selected_index = 46)
              => (selected_index' = 46))
           /\ ((KeyStep("Left") /\ ActiveMode = "Map" /\ map_selected_index = 0)
              => (map_selected_index' = 0))
           /\ ((KeyStep("Right") /\ ActiveMode = "Map" /\ map_selected_index = 46)
              => (map_selected_index' = 46))]_vars

C19_Witness ==
    /\ last_key = "Right"
    /\ ActiveMode = "Map"
    /\ map_selected_index = 46
    /\ map_scroll = 0

\* C20: map_scroll is always in 0 .. 48, which is the number of lines of the
\* rendered map less 25, as seen whenever the map view has just scrolled or
\* ensure_selected_visible has just rewritten the offset; stats_scroll is in
\* 0 .. 20 and prefecture_scroll in 0 .. 47 - 20.
C20_ScrollsInRange ==
    /\ map_scroll \in 0 .. 48
    /\ (show_map /\ last_key \in {"Up", "Down", "Left", "Right"}) =>
          map_scroll \in
              0 .. (Len(render_map(map_selected_index, user_progress)) - 25)
    /\ stats_scroll \in 0 .. 20
    /\ prefecture_scroll \in 0 .. (47 - 20)

C20_Witness ==
    /\ last_key = "Right"
    /\ ActiveMode = "Map"
    /\ map_selected_index = 46
    /\ map_scroll = 47

\* C21 as stated: after every Left or Right handled in map view, the boundary
\* ones included, the line of the selected prefecture is inside the viewport
\* of height 25.
C21_VisibleAfterLeftRight ==
    (last_key \in {"Left", "Right"} /\ ActiveMode = "Map") =>
        /\ map_scroll <= get_prefecture_line(map_selected_index)
        /\ get_prefecture_line(map_selected_index) < map_scroll + 25

\* C21: a Left or Right handled in map view that moves the selection leaves
\* the line of the selected prefecture inside the viewport of height 25;
\* Left at index 0 and Right at index 46 change neither the selection nor
\* map_scroll, wherever the viewport is.
C21_VisibleAfterMove ==
    [][((\E key \in {"Left", "Right"} : KeyStep(key)) /\ ActiveMode = "Map") =>
          IF map_selected_index' # map_selected_index
          THEN /\ map_scroll' <= get_prefecture_line(map_selected_index')
               /\ get_prefecture_line(map_selected_index') < map_scroll' + 25
          ELSE /\ map_scroll' = map_scroll
               /\ \/ (last_key' = "Left" /\ map_selected_index = 0)
                  \/ (last_key' = "Right" /\ map_selected_index = 46)]_vars

C21_Witness ==
    /\ last_key = "Left"
    /\ ActiveMode = "Map"
    /\ map_selected_index = 5
    /\ map_scroll = get_prefecture_line(5)

\* C22: Left and Right outside the map view change no view field and no
\* progress, in memory or on disk.
C22_LeftRightOutsideMap ==
    [][((\E key \in {"Left", "Right"} : KeyStep(key)) /\ ActiveMode # "Map") =>
          (view' = view /\ store' = store /\ pc' = "draw")]_vars

C22_Witness ==
    /\ pc = "draw" /\ last_key = "Right"
    /\ ActiveMode = "Stats"
    /\ stats_scroll = 20 /\ map_selected_index = 12 /\ map_scroll = 3

\* C23: Up and Down move only the cursor of the view that is shown, by at
\* most 1: selected_index (with list_state) in list view, map_scroll in map
\* view, stats_scroll in stats view, prefecture_scroll in alt-map view;
\* map_selected_index, the view flags, both overlay flags and the progress
\* stay.
C23_UpDownMoveActiveCursor ==
    [][(\E key \in {"Up", "Down"} : KeyStep(key)) =>
          /\ UNCHANGED <<show_help, show_map, show_stats, show_detail,
                         show_alt_map, map_selected_index, store>>
          /\ list_state' = selected_index'
          /\ (ActiveMode # "List") => (selected_index' = selected_index)
          /\ (ActiveMode # "Map") => (map_scroll' = map_scroll)
          /\ (ActiveMode # "Stats") => (stats_scroll' = stats_scroll)
          /\ (ActiveMode # "AltMap") => (prefecture_scroll' = prefecture_scroll)
          /\ selected_index' - selected_index \in {-1, 0, 1}
          /\ map_scroll' - map_scroll \in {-1, 0, 1}
          /\ stats_scroll' - stats_scroll \in {-1, 0, 1}
          /\ prefecture_scroll' - prefecture_scroll \in {-1, 0, 1}]_vars

C23_Witness ==
    /\ pc = "draw" /\ last_key = "Down"
    /\ ActiveMode = "Map"
    /\ map_selected_index = 0
    /\ map_scroll = MapMaxScroll(0, user_progress)
    /\ selected_index = 30 /\ stats_scroll = 5 /\ prefecture_scroll = 9

\* C24: Enter flips show_detail in every view, Esc makes it false from either
\* value, 'h' flips show_help only; none of the three changes the view, the
\* other overlay flag, a cursor or the progress.
C24_OverlayKeys ==
    [][/\ KeyStep("Enter") => (show_detail' = ~show_detail /\ show_help' = show_help)
       /\ KeyStep("Esc") => (show_detail' = FALSE /\ show_help' = show_help)
       /\ KeyStep("h") => (show_help' = ~show_help /\ show_detail' = show_detail)
       /\ (\E key \in {"Enter", "Esc", "h"} : KeyStep(key)) =>
             UNCHANGED <<show_map, show_stats, show_alt_map, selected_index,
                         list_state, map_scroll, map_selected_index,
                         stats_scroll, prefecture_scroll, store>>]_vars

C24_Witness ==
    /\ pc = "draw" /\ last_key = "Esc"
    /\ ~show_detail /\ show_help
    /\ ActiveMode = "AltMap"

\* C25: a key without a match arm, and an event that is no key, change no
\* view field, no progress and no file, and the loop goes on to the next
\* draw and read.
C25_UnrecognizedIgnored ==
    [][(KeyStep("other") \/ KeyStep("non-key")) =>
          (view' = view /\ store' = store /\ pc' = "draw")]_vars

C25_Witness ==
    /\ pc = "read" /\ last_key = "non-key"
    /\ keys >= 3
    /\ user_progress # EmptyProgress /\ save_result = "ok"
    /\ disk = FileOf(user_progress)

\* C26: wherever the loop waits for an event 'q' can be handled, and handling
\* it returns Ok(()) from run_app with the view, the progress, the file and
\* the result of the latest save as they were.
C26_QuitEndsLoop ==
    /\ []((pc = "read" /\ keys < MaxKeys) => ENABLED KeyQuit)
    /\ [][KeyStep("q") => (pc' = "quit" /\ view' = view /\ store' = store)]_vars
    /\ [][(pc = "quit") => UNCHANGED vars]_vars

C26_Witness ==
    /\ pc = "quit" /\ last_key = "q"
    /\ show_detail /\ show_help
    /\ ActiveMode = "Stats"
    /\ user_progress # EmptyProgress

\* the catalog index at which zone block z of get_prefecture_line starts
RECURSIVE ZoneStart(_)
ZoneStart(z) == IF z = 1 THEN 0 ELSE ZoneStart(z - 1) + LineZoneCounts[z - 1]

\* the catalog indices zone block z of get_prefecture_line covers
ZoneIndices(z) == ZoneStart(z) .. (ZoneStart(z) + LineZoneCounts[z] - 1)

\* C29: the catalog has 47 entries with pairwise distinct names and 9
\* regions; the entries of a region are contiguous; and the k-th region of
\* the catalog is exactly the k-th zone block get_prefecture_line walks,
\* with counts 1, 6, 7, 9, 7, 5, 4, 7, 1.
C29_CatalogMatchesZones ==
    /\ Len(prefectures) = 47
    /\ \A i, j \in Indices : (NameAt(i) = NameAt(j)) => (i = j)
    /\ Cardinality(CatalogRegions) = 9
    /\ \A i, k \in Indices :
          (i < k /\ PrefectureAt(i).region = PrefectureAt(k).region)
              => (PrefectureAt(i + 1).region = PrefectureAt(i).region)
    /\ LineZoneCounts = <<1, 6, 7, 9, 7, 5, 4, 7, 1>>
    /\ \A z \in 1 .. Len(LineZoneCounts) :
          ZoneIndices(z) = RegionMembers(PrefectureAt(ZoneStart(z)).region)
    /\ HasPrefecture(map_selected_index) =>
          \E z \in 1 .. Len(LineZoneCounts) :
              /\ map_selected_index \in ZoneIndices(z)
              /\ get_prefecture_line(map_selected_index)
                     = 3 * (z - 1) + 1 + map_selected_index

C29_Witness ==
    /\ keys > 0
    /\ map_selected_index = 46
    /\ PrefectureAt(46).region = "Okinawa"
    /\ ZoneIndices(9) = {46}
    /\ map_scroll = get_prefecture_line(46) + 1 - terminal_height

C28_ExportNeverEndsLoop ==
    [][(KeyStep("e") \/ KeyStep("x")) =>
          (view' = view /\ store' = store /\ pc' = "draw")]_vars

C28_Witness ==
    /\ pc = "panic" /\ last_key = "e"
    /\ ActiveMode = "List"
    /\ StatsPanics(user_progress)
    /\ disk = FileOf(user_progress)

\* C30: once the app is constructed every level in user_progress is one of
\* 0..5, and calculate_stats never indexes level_counts out of bounds.
C30_LevelsInRange ==
    (pc \notin {"new", "load_error"}) =>
        /\ \A k \in DOMAIN user_progress : user_progress[k] \in Levels
        /\ pc # "panic"

C30_Witness ==
    /\ pc = "panic" /\ last_key = "s"
    /\ ActiveMode = "Stats"
    /\ keys = 1
    /\ save_result = "none"
    /\ \E k \in DOMAIN user_progress : user_progress[k] \notin Levels

\* C31: when JTermApp::new has succeeded and nothing is drawn yet, the list
\* view is the one shown, both overlays are closed, both selections and the
\* three scroll offsets are 0, list_state selects 0, and the progress is
\* what load_user_progress returned for the file.
C31_InitialState ==
    (pc = "draw" /\ keys = 0) =>
        /\ ActiveMode = "List"
        /\ ~show_map /\ ~show_stats /\ ~show_alt_map
        /\ ~show_detail /\ ~show_help
        /\ selected_index = 0 /\ list_state = 0
        /\ map_selected_index = 0
        /\ map_scroll = 0 /\ stats_scroll = 0 /\ prefecture_scroll = 0
        /\ ~load_fails(disk)
        /\ user_progress = load_user_progress(disk)
        /\ save_result = "none"

C31_Witness ==
    /\ pc = "draw" /\ keys = 0
    /\ last_key = "none"
    /\ disk.exists
    /\ user_progress # EmptyProgress
    /\ user_progress = disk.levels

\* the line of the map selection lies in the 25 lines from map_scroll on
SelectedLineVisible ==
    /\ map_scroll <= get_prefecture_line(map_selected_index)
    /\ get_prefecture_line(map_selected_index) < map_scroll + terminal_height

MapScrollStep == ActiveMode = "Map" /\ (KeyStep("Up") \/ KeyStep("Down"))

\* C32 as stated, step by step: with the selected line inside the viewport,
\* no command, Up and Down included, leaves the map view with the selected
\* line outside it.
C32_SelectionAlwaysVisible ==
    [][(SelectedLineVisible /\ ActiveMode' = "Map") => SelectedLineVisible']_vars

\* C32: every step but Up and Down in map view either leaves map_scroll and
\* the map selection as they were (entering the map view by 'm' included) or
\* keeps a visible selection visible; Up and Down in map view move
\* map_scroll by one, whatever the selection.
C32_VisibleUnlessScrolled ==
    [][/\ ~MapScrollStep =>
             \/ UNCHANGED <<map_scroll, map_selected_index>>
             \/ (SelectedLineVisible => SelectedLineVisible')
       /\ MapScrollStep =>
             /\ map_selected_index' = map_selected_index
             /\ map_scroll' =
                  IF last_key' = "Up"
                  THEN (IF map_scroll > 0 THEN map_scroll - 1 ELSE 0)
                  ELSE (IF map_scroll < MapMaxScroll(map_selected_index, user_progress)
                        THEN map_scroll + 1 ELSE map_scroll)]_vars

C32_Witness ==
    /\ pc = "draw" /\ last_key = "Down"
    /\ ActiveMode = "Map"
    /\ map_selected_index = 0
    /\ map_scroll = get_prefecture_line(0) + 1
    /\ ~SelectedLineVisible

\* C33: a level key whose save fails leaves the view as it was and the
\* in-memory progress equal to what the file holds.
C33_NoMemoryOnlyEdit ==
    [][((\E level \in Levels : LevelStep(level)) /\ save_result' = "err") =>
          /\ view' = view
          /\ ~load_fails(disk')
          /\ load_user_progress(disk') = user_progress']_vars

C33_Witness ==
    /\ save_result = "err" /\ pc = "error"
    /\ last_key \in LevelKeys
    /\ disk.exists /\ disk.parses
    /\ disk.levels # user_progress
    /\ DOMAIN disk.levels # DOMAIN user_progress

\* the name render_map prints on the line that carries the indicator
IndicatedName(map_index, progress) ==
    LET map_lines == render_map(map_index, progress)
    IN  map_lines[CHOOSE n \in 1 .. Len(map_lines) : map_lines[n].indicator].name_en

\* C34: in map view the name on the map line carrying the selection
\* indicator is the name of the catalog entry at map_selected_index, the
\* entry a level key writes to and the info panel and detail popup show.
C34_IndicatorNamesSelection ==
    (ActiveMode = "Map") =>
        IndicatedName(map_selected_index, user_progress)
            = NameAt(LevelTargetIndex(show_map, map_selected_index, selected_index))

C34_Witness ==
    /\ ActiveMode = "Map"
    /\ keys > 0
    /\ map_selected_index = 3
    /\ IndicatedName(map_selected_index, user_progress) = "Akita"
    /\ NameAt(LevelTargetIndex(show_map, map_selected_index, selected_index)) = "Miyagi"

\* C35: whenever the loop waits for an event with the stats view on, the
\* statistics on the screen are calculate_stats of the progress as it is
\* now; after a level key in stats view the level counts on the screen
\* count the prefectures at each level of the new progress.
C35_StatsNeverStale ==
    (pc = "read" /\ ActiveMode = "Stats") =>
        /\ stats_frame # NoStatsFrame
        /\ stats_frame[1].stats = calculate_stats(user_progress)
        /\ ~stats_frame[1].stats.panicked
        /\ (last_key \in LevelKeys) =>
              \A level \in Levels :
                  stats_frame[1].stats.level_counts[level + 1]
                      = Cardinality(AtLevel(user_progress, level))

C35_Witness ==
    /\ pc = "read" /\ ActiveMode = "Stats"
    /\ last_key = "3" /\ keys >= 3
    /\ stats_frame # NoStatsFrame
    /\ stats_frame[1].stats.level_counts[4] = 1
    /\ stats_frame[1].stats.total_score >= 8

\* C36: with show_detail set, the detail popup describes a prefecture, and
\* it is the one a level key pressed now writes to: the catalog entry at
\* map_selected_index in map view, at selected_index in list, stats and
\* alt-map view.
C36_DetailDescribesLevelTarget ==
    show_detail =>
        LET popup == render_detail_popup(show_map, map_selected_index, selected_index)
        IN  /\ popup # <<>>
            /\ popup[1] = NameAt(IF ActiveMode = "Map" THEN map_selected_index
                                                       ELSE selected_index)
            /\ popup[1] = PrefectureAt(LevelTargetIndex(show_map, map_selected_index,
                                                        selected_index)).name_en
            /\ (last_key \in LevelKeys) => (popup[1] \in DOMAIN user_progress)

C36_Witness ==
    /\ show_detail
    /\ pc = "draw" /\ last_key = "2"
    /\ ActiveMode = "Map"
    /\ map_selected_index = 20 /\ selected_index = 30
    /\ render_detail_popup(show_map, map_selected_index, selected_index)
           = <<NameAt(20)>>
    /\ get_prefecture_level(user_progress, NameAt(20)) = 2

\* C37: the step taken from the top of the loop, the draw, changes no view
\* field, no progress and no file, in every view and with any overlay; an
\* event is read only after a draw, and after it is handled nothing is read
\* before the next draw.
C37_DrawIsReadOnly ==
    [][/\ (pc = "draw") =>
             /\ view' = view /\ store' = store
             /\ keys' = keys /\ last_key' = last_key
             /\ pc' \in {"read", "error", "panic"}
       /\ (keys' # keys) => (pc = "read" /\ pc' # "read")
       /\ (pc' = "read") => (pc = "draw")]_vars

C37_Witness ==
    /\ pc = "read" /\ last_key = "h"
    /\ ActiveMode = "Stats"
    /\ show_detail /\ show_help
    /\ stats_scroll = 2
    /\ stats_frame # NoStatsFrame

\* the view a mode key leads to
ToggleTarget(key) ==
    IF ActiveMode = ModeOfKey(key) THEN "List" ELSE ModeOfKey(key)

\* from where the loop waits for an event, each of the two overlay flags can
\* be flipped alone, Esc closes the detail overlay, and each mode key leads
\* to its view, or to the list view from its own view, the overlays kept
FlagsMoveFreely ==
    /\ ENABLED (KeyEnter /\ show_detail' = ~show_detail
                         /\ show_help' = show_help /\ ActiveMode' = ActiveMode)
    /\ ENABLED (KeyEsc /\ ~show_detail'
                       /\ show_help' = show_help /\ ActiveMode' = ActiveMode)
    /\ ENABLED (KeyHelp /\ show_help' = ~show_help
                        /\ show_detail' = show_detail /\ ActiveMode' = ActiveMode)
    /\ ENABLED (KeyM /\ ActiveMode' = ToggleTarget("m")
                     /\ show_detail' = show_detail /\ show_help' = show_help)
    /\ ENABLED (KeyS /\ ActiveMode' = ToggleTarget("s")
                     /\ show_detail' = show_detail /\ show_help' = show_help)
    /\ ENABLED (KeyW /\ ActiveMode' = ToggleTarget("w")
                     /\ show_detail' = show_detail /\ show_help' = show_help)

\* C38: every combination of view and overlay flags can be reached and left
\* again towards the list view with both overlays closed: wherever the loop
\* waits for an event each flag can be moved on its own, and no command is
\* followed by a draw that aborts the program.
C38_EveryCombinationLive ==
    /\ (pc = "read" /\ keys < MaxKeys) => FlagsMoveFreely
    /\ (pc = "draw") => ~(ActiveMode = "Stats" /\ StatsPanics(user_progress))
    /\ pc # "panic"

C38_Witness ==
    /\ pc = "panic"
    /\ ActiveMode = "Stats"
    /\ show_detail /\ show_help
    /\ keys = 3
    /\ StatsPanics(user_progress)

\* C39: in the stats the view shows, every region's percentage is at most
\* 100, its bar_filled = percentage / 8 is at most 12 and bar_empty =
\* 12 - bar_filled is not negative, so the usize subtraction does not
\* underflow; the overall filled_segments = completion_percentage / 5 is at
\* most 20, the width of the bar.
C39_BarsInRange ==
    StatsShown =>
        LET shown == stats_frame[1]
        IN  /\ shown.completion_percentage \in 0 .. 100
            /\ shown.filled_segments = shown.completion_percentage \div 5
            /\ shown.filled_segments \in 0 .. 20
            /\ \A r \in DOMAIN shown.region_lines :
                  LET line == shown.region_lines[r]
                  IN  /\ line.visited <= line.total
                      /\ line.percentage \in 0 .. 100
                      /\ line.bar_filled = line.percentage \div 8
                      /\ line.bar_filled \in 0 .. 12
                      /\ line.bar_empty = 12 - line.bar_filled
                      /\ line.bar_empty \in 0 .. 12

C39_Witness ==
    /\ StatsShown
    /\ stats_frame[1].completion_percentage = 100
    /\ stats_frame[1].filled_segments = 20
    /\ stats_frame[1].region_lines["Kanto"].bar_filled = 12
    /\ stats_frame[1].region_lines["Kanto"].bar_empty = 0

====
